---- MODULE Spec2Model ----
(***************************************************************************)
(* Model of grade_homework.py: main() runs execute_notebook (read the      *)
(* notebook, concatenate the code cells, run them in one subprocess) and   *)
(* then grade_result (regex search, float parse, piecewise score), and     *)
(* prints one JSON report.                                                 *)
(*                                                                         *)
(* Text is a sequence of one-character strings; the 30-character label is  *)
(* carried as one element.  Numbers are exact: a parsed value is an        *)
(* integer count of 10^-7, a score is a fraction [num, den].               *)
(***************************************************************************)
EXTENDS Integers, Sequences, FiniteSets, TLC

VARIABLES pc, nb, full_code, process, output, error_message,
          score, feedback, printed, spawns, has_code

vars == <<pc, nb, full_code, process, output, error_message,
          score, feedback, printed, spawns, has_code>>

(***************************************************************************)
(* Bounds of the explored inputs.                                          *)
(***************************************************************************)
MaxCells == 2
MaxLines == 2

(***************************************************************************)
(* Python values.                                                          *)
(***************************************************************************)
None == <<"<None>">>
Unassigned == [num |-> 0, den |-> 0]
Truthy(s) == s # None /\ Len(s) > 0
Frac(n, d) == [num |-> n, den |-> d]

RECURSIVE Concat(_)
Concat(ss) == IF ss = <<>> THEN <<>> ELSE Head(ss) \o Concat(Tail(ss))

(***************************************************************************)
(* Decimal digits.                                                         *)
(***************************************************************************)
Digits == {"0", "1", "2", "3", "4", "5", "6", "7", "8", "9"}
DigitVal == ("0" :> 0) @@ ("1" :> 1) @@ ("2" :> 2) @@ ("3" :> 3) @@ ("4" :> 4)
            @@ ("5" :> 5) @@ ("6" :> 6) @@ ("7" :> 7) @@ ("8" :> 8) @@ ("9" :> 9)
DigitChar == <<"0", "1", "2", "3", "4", "5", "6", "7", "8", "9">>

RECURSIVE Pow10(_)
Pow10(k) == IF k = 0 THEN 1 ELSE 10 * Pow10(k - 1)

\* n written with exactly w decimal digits
RECURSIVE Dec(_, _)
Dec(n, w) == IF w = 0 THEN <<>>
             ELSE Append(Dec(n \div 10, w - 1), DigitChar[(n % 10) + 1])

\* n written with as many digits as it needs
RECURSIVE DecInt(_)
DecInt(n) == IF n < 10 THEN <<DigitChar[n + 1]>>
             ELSE Append(DecInt(n \div 10), DigitChar[(n % 10) + 1])


(***************************************************************************)
(* Exact arithmetic standing for Python floats.  Every product below stays *)
(* under 2^31 for the inputs explored.                                     *)
(***************************************************************************)
Abs(x) == IF x < 0 THEN -x ELSE x

RECURSIVE GCD(_, _)
GCD(a, b) == IF b = 0 THEN a ELSE GCD(b, a % b)

Norm(q) == LET g == GCD(Abs(q.num), q.den)
           IN  IF g = 0 THEN q ELSE Frac(q.num \div g, q.den \div g)

RSub(a, b) == Norm(Frac(a.num * b.den - b.num * a.den, a.den * b.den))
RDiv(a, b) == Norm(Frac(a.num * b.den, a.den * b.num))
RMul(a, b) == Norm(Frac(a.num * b.num, a.den * b.den))
RLe(a, b) == a.num * b.den <= b.num * a.den
RLt(a, b) == a.num * b.den < b.num * a.den

\* round(num / den * 10^digits) to an integer, ties to even, by long division
RECURSIVE LongDiv(_, _, _, _)
LongDiv(q, r, den, digits) ==
    IF digits = 0
    THEN IF 2 * r > den \/ (2 * r = den /\ q % 2 = 1) THEN q + 1 ELSE q
    ELSE LongDiv(10 * q + ((10 * r) \div den), (10 * r) % den, den, digits - 1)

RoundDiv(num, den, digits) == LongDiv(num \div den, num % den, den, digits)

(***************************************************************************)
(* grade_result: the regular expression, float(), the score, the feedback. *)
(***************************************************************************)
Label == "Minimum Drag Coefficient (Cd):"
LabelLower == "minimum drag coefficient (cd):"
LabelUpper == "MINIMUM DRAG COEFFICIENT (CD):"

\* re.IGNORECASE: characters are compared after case folding
Fold(c) == IF c \in {Label, LabelUpper} THEN LabelLower ELSE c

\* \s
Whitespace == {" ", "\t", "\n", "\r"}
\* [0-9.]
NumChars == Digits \cup {"."}

\* \s* : the first position at or after j that is not whitespace
RECURSIVE SkipWs(_, _)
SkipWs(text, j) == IF j <= Len(text) /\ text[j] \in Whitespace
                   THEN SkipWs(text, j + 1) ELSE j

\* [0-9.]+ : the position after the longest run of number characters from j
RECURSIVE RunEnd(_, _)
RunEnd(text, j) == IF j <= Len(text) /\ text[j] \in NumChars
                   THEN RunEnd(text, j + 1) ELSE j

\* the pattern matches with the label at position i
MatchAt(text, i) == /\ Fold(text[i]) = Fold(Label)
                    /\ LET j == SkipWs(text, i + 1)
                       IN  j <= Len(text) /\ text[j] \in NumChars

\* the rightmost match taken in place of the leftmost
Search_LastMatch(text) ==
    LET starts == {i \in 1..Len(text) : MatchAt(text, i)}
    IN  IF starts = {} THEN [found |-> FALSE, start |-> 0, group1 |-> <<>>]
        ELSE LET i == CHOOSE k \in starts : \A m \in starts : k >= m
                 j == SkipWs(text, i + 1)
             IN  [found |-> TRUE, start |-> i,
                  group1 |-> SubSeq(text, j, RunEnd(text, j) - 1)]

\* re.search: the leftmost match, group(1) being the number characters
Search(text) ==
    LET starts == {i \in 1..Len(text) : MatchAt(text, i)}
    IN  IF starts = {} THEN [found |-> FALSE, start |-> 0, group1 |-> <<>>]
        ELSE LET i == CHOOSE k \in starts : \A m \in starts : k <= m
                 j == SkipWs(text, i + 1)
             IN  [found |-> TRUE, start |-> i,
                  group1 |-> SubSeq(text, j, RunEnd(text, j) - 1)]

\* values are counted in units of 10^-FracDigits
FracDigits == 7
Unit == Pow10(FracDigits)

RECURSIVE DigitsValue(_)
DigitsValue(ds) == IF ds = <<>> THEN 0
                   ELSE 10 * DigitsValue(SubSeq(ds, 1, Len(ds) - 1)) + DigitVal[ds[Len(ds)]]

\* float() of a string of digits and points: ValueError unless it has at
\* most one point and at least one digit.  Exact for tokens with at most
\* FracDigits digits after the point.
ParseFloat(token) ==
    LET points == {i \in 1..Len(token) : token[i] = "."}
    IN  IF Cardinality(points) > 1 \/ Len(token) - Cardinality(points) = 0
        THEN [ok |-> FALSE, value |-> 0]
        ELSE LET p == IF points = {} THEN Len(token) + 1 ELSE CHOOSE i \in points : TRUE
                 ip == SubSeq(token, 1, p - 1)
                 fp == SubSeq(token, p + 1, Len(token))
                 fd == IF Len(fp) > FracDigits THEN SubSeq(fp, 1, FracDigits) ELSE fp
             IN  [ok |-> TRUE,
                  value |-> DigitsValue(ip) * Unit
                            + DigitsValue(fd) * Pow10(FracDigits - Len(fd))]

OPTIMAL_CD == 300353 * Pow10(FracDigits - 6)
TOLERANCE == Frac(1, 10)
One == Frac(1, 1)
Ten == Frac(10, 1)

\* error = abs(student_cd - OPTIMAL_CD) / OPTIMAL_CD
RelError(student_cd) == Norm(Frac(Abs(student_cd - OPTIMAL_CD), OPTIMAL_CD))

\* round(score, 3) in place of round(score, 2)
Round2_ThreeDigits(q) == Norm(Frac(RoundDiv(q.num, q.den, 3), 1000))

\* round(score, 2)
Round2(q) == Norm(Frac(RoundDiv(q.num, q.den, 2), 100))

\* the falloff divided by 1.0 in place of (1.0 - TOLERANCE)
RawScore_WrongSlope(error) ==
    IF RLe(error, TOLERANCE) THEN Ten
    ELSE IF RLt(error, One)
         THEN RMul(Ten, RSub(One, RDiv(RSub(error, TOLERANCE), One)))
         ELSE Frac(0, 1)

\* the falloff turned upside down: rising with the error
RawScore_Rising(error) ==
    IF RLe(error, TOLERANCE) THEN Ten
    ELSE IF RLt(error, One)
         THEN RMul(Ten, RDiv(RSub(error, TOLERANCE), RSub(One, TOLERANCE)))
         ELSE Frac(0, 1)

\* the if / elif / else on the error, before rounding
RawScore(error) ==
    IF RLe(error, TOLERANCE) THEN Ten
    ELSE IF RLt(error, One)
         THEN RMul(Ten, RSub(One, RDiv(RSub(error, TOLERANCE), RSub(One, TOLERANCE))))
         ELSE Frac(0, 1)

Score(student_cd) == Round2(RawScore(RelError(student_cd)))

\* f"{x:.6f}" of a value counted in units
Fmt6(v) == LET m == RoundDiv(v, Pow10(FracDigits - 6), 0)
           IN  DecInt(m \div 1000000) \o <<".">> \o Dec(m % 1000000, 6)

\* f"{error:.2%}"
FmtPct(error) == LET p == RoundDiv(error.num, error.den, 4)
                 IN  DecInt(p \div 100) \o <<".">> \o Dec(p % 100, 2) \o <<"%">>

\* f"{score}" of a float with at most two decimals: 10.0, 5.56, 7.4
FmtScore(s) == LET h == (s.num * 100) \div s.den
                   f == h % 100
               IN  DecInt(h \div 100) \o <<".">>
                   \o (IF f % 10 = 0 THEN Dec(f \div 10, 1) ELSE Dec(f, 2))

NoOutputMsg == <<"Could not get output from the notebook.">>
NotFoundMsg == <<"Could not find the 'Minimum Drag Coefficient (Cd)' in the output. Make sure it is printed correctly.">>
ParseErrorMsg(token) == <<"Could not parse the drag coefficient value '">> \o token \o <<"'.">>

GradedFeedback(student_cd, error, sc) ==
    <<"Grading based on the final Drag Coefficient (Cd).\n", "Optimal Cd: ">>
    \o Fmt6(OPTIMAL_CD) \o <<"\n", "Your Cd: ">> \o Fmt6(student_cd)
    \o <<"\n", "Error: ">> \o FmtPct(error)
    \o <<"\n", "Score: ">> \o FmtScore(sc) \o <<"/10">>

\* grade_result(output): the pair (score, feedback)
GradeResult(out) ==
    IF out = None THEN [score |-> Frac(0, 1), feedback |-> NoOutputMsg]
    ELSE LET match == Search(out)
         IN  IF ~match.found THEN [score |-> Frac(0, 1), feedback |-> NotFoundMsg]
             ELSE LET parsed == ParseFloat(match.group1)
                  IN  IF ~parsed.ok
                      THEN [score |-> Frac(0, 1), feedback |-> ParseErrorMsg(match.group1)]
                      ELSE LET student_cd == parsed.value
                               error == RelError(student_cd)
                               sc == Round2(RawScore(error))
                           IN  [score |-> sc,
                                feedback |-> GradedFeedback(student_cd, error, sc)]

(***************************************************************************)
(* Inputs: the notebook on disk and the behaviour of the student's code.   *)
(***************************************************************************)
Sources == { <<>>, <<" ", "\n">>, <<"p">> }
Cells == [cell_type : {"code", "markdown"}, source : Sources]

RECURSIVE SeqsUpTo(_, _)
SeqsUpTo(S, n) == IF n = 0 THEN { <<>> }
                  ELSE LET shorter == SeqsUpTo(S, n - 1)
                       IN  shorter \cup {Append(q, x) : q \in {r \in shorter : Len(r) = n - 1}, x \in S}

Notebooks == SeqsUpTo(Cells, MaxCells)
ReadErrors == {"[Errno 2] No such file or directory", "Notebook does not appear to be JSON"}
LaunchErrors == {"[Errno 7] Argument list too long", "embedded null byte"}

Tok(ip, frac, w) == DecInt(ip) \o <<".">> \o Dec(frac, w)
TokOptimal == Tok(0, 300353, 6)
TokTenPct == Tok(0, 330388, 6)
TokEdge == Tok(0, 3303883, 7)
TokOverEdge == Tok(0, 3303884, 7)
TokLowEdge == Tok(0, 2703177, 7)
TokHalf == Tok(0, 450530, 6)
TokHalfNext == Tok(0, 450531, 6)
TokDouble == Tok(0, 600706, 6)
TokUnderDouble == Tok(0, 600705, 6)
TokPoint4 == Tok(0, 4, 1)
TokFive == <<"5">>
TokTwoPoints == <<"1", ".", "2", ".", "3">>
TokPointOnly == <<".">>

Tokens == {TokOptimal, TokTenPct, TokEdge, TokOverEdge, TokLowEdge, TokHalf, TokHalfNext,
           TokDouble, TokUnderDouble, TokPoint4, TokFive, TokTwoPoints, TokPointOnly}

\* lines the student's code may print (without the line break)
Lines == { <<"x">>, <<Label>> }
         \cup { <<Label, " ">> \o t : t \in Tokens }
         \cup { <<Label>> \o TokOptimal,
                <<LabelLower, " ">> \o TokPoint4,
                <<LabelUpper, "\t">> \o TokHalf,
                TokOptimal }
         \cup { <<Label, " ", "x">> \o TokOptimal,
                <<"x", Label, " ">> \o TokPoint4,
                <<Label, " ">> \o TokHalf \o <<"x">> }

Stdouts == { Concat([i \in 1..Len(ls) |-> Append(ls[i], "\n")]) : ls \in SeqsUpTo(Lines, MaxLines) }
Stderrs == { <<>>, <<"Traceback (most recent call last):", "\n", "ZeroDivisionError">> }
ReturnCodes == {0, 1}

(***************************************************************************)
(* execute_notebook                                                        *)
(***************************************************************************)
Unbound == <<>>
NoProcess == [kind |-> "none", returncode |-> 0, stdout |-> <<>>, stderr |-> <<>>]

\* the loop over nb.cells
RECURSIVE FullCode(_)
FullCode(cells) ==
    IF cells = <<>> THEN <<>>
    ELSE (IF Head(cells).cell_type = "code" THEN Append(Head(cells).source, "\n") ELSE <<>>)
         \o FullCode(Tail(cells))

\* str.strip()
RECURSIVE LStrip(_)
LStrip(s) == IF s # <<>> /\ Head(s) \in Whitespace THEN LStrip(Tail(s)) ELSE s
RECURSIVE RStrip(_)
RStrip(s) == IF s # <<>> /\ s[Len(s)] \in Whitespace THEN RStrip(SubSeq(s, 1, Len(s) - 1)) ELSE s
Strip(s) == RStrip(LStrip(s))

ReadErrorMsg(e) == <<"Error reading notebook file: ", e>>
NoCodeMsg == <<"No code found in the notebook.">>
\* the captured stderr returned without the fixed prefix
ExecFailedMsg_Bare(stderr) == stderr
ExecFailedMsg(stderr) == <<"Code execution failed with an error:\n">> \o stderr
TimeoutMsg == <<"Code execution timed out after 4 minutes.">>
UnexpectedMsg(e) == <<"An unexpected error occurred during execution: ", e>>

\* some code cell holds something other than whitespace
HasCode(cells) == \E i \in 1..Len(cells) :
                     /\ cells[i].cell_type = "code"
                     /\ \E k \in 1..Len(cells[i].source) : cells[i].source[k] \notin Whitespace

\* what execute_notebook returns; its locals die with it
Return(out, err) == /\ output' = out
                    /\ error_message' = err
                    /\ nb' = Unbound
                    /\ full_code' = Unbound
                    /\ pc' = "returned"

Init == /\ pc = "start"
        /\ nb = Unbound
        /\ full_code = Unbound
        /\ process = NoProcess
        /\ output = None
        /\ error_message = None
        /\ score = Unassigned
        /\ feedback = None
        /\ printed = <<>>
        /\ spawns = 0
        /\ has_code = FALSE

\* lines 12-16, the read raises
ReadFails == /\ pc = "start"
             /\ \E e \in ReadErrors : Return(None, ReadErrorMsg(e))
             /\ UNCHANGED <<process, score, feedback, printed, spawns, has_code>>

\* lines 12-14, the read succeeds
ReadNotebook == /\ pc = "start"
                /\ \E cells \in Notebooks : nb' = cells /\ has_code' = HasCode(cells)
                /\ pc' = "cells"
                /\ UNCHANGED <<full_code, process, output, error_message, score, feedback,
                               printed, spawns>>

\* the emptiness test without strip()
NoCode_NoStrip(code) == code = <<>>

\* the decision of line 23
NoCode(code) == Strip(code) = <<>>

\* lines 18-24; nb is not read again after the loop
ConcatCells == /\ pc = "cells"
               /\ LET code == FullCode(nb)
                  IN  IF NoCode(code)
                      THEN Return(None, NoCodeMsg)
                      ELSE /\ full_code' = code
                           /\ nb' = Unbound
                           /\ pc' = "spawn"
                           /\ UNCHANGED <<output, error_message>>
               /\ UNCHANGED <<process, score, feedback, printed, spawns, has_code>>

\* failure recognised by a non-empty stderr in place of the exit code
ExitOutcome_ByStderr(p) == IF p.stderr # <<>>
                           THEN [output |-> None, error |-> ExecFailedMsg(p.stderr)]
                           ELSE [output |-> p.stdout, error |-> None]

\* what lines 36-40 return for a finished process
ExitOutcome(p) == IF p.returncode # 0
                  THEN [output |-> None, error |-> ExecFailedMsg(p.stderr)]
                  ELSE [output |-> p.stdout, error |-> None]

\* lines 29-40, subprocess.run returns
ProcessExits == /\ pc = "spawn"
                /\ spawns' = spawns + 1
                /\ process' \in [kind : {"exit"}, returncode : ReturnCodes,
                                 stdout : Stdouts, stderr : Stderrs]
                /\ Return(ExitOutcome(process').output, ExitOutcome(process').error)
                /\ UNCHANGED <<score, feedback, printed, has_code>>

\* lines 29-34 and 41-42, subprocess.run raises TimeoutExpired
ProcessTimesOut == /\ pc = "spawn"
                   /\ spawns' = spawns + 1
                   /\ process' = [NoProcess EXCEPT !.kind = "timeout"]
                   /\ Return(None, TimeoutMsg)
                   /\ UNCHANGED <<score, feedback, printed, has_code>>

\* lines 29-34 and 43-44, subprocess.run raises anything else
LaunchFails == /\ pc = "spawn"
               /\ spawns' = spawns + 1
               /\ process' = [NoProcess EXCEPT !.kind = "launch_error"]
               /\ \E e \in LaunchErrors : Return(None, UnexpectedMsg(e))
               /\ UNCHANGED <<score, feedback, printed, has_code>>

(***************************************************************************)
(* main                                                                    *)
(***************************************************************************)
\* grade_result tabulated over everything execute_notebook can hand to it
Outputs == Stdouts \cup Stderrs \cup {None}
GradeOf == [out \in Outputs |-> GradeResult(out)]

\* a fixed text reported in place of the stage's reason
MainResult_FixedText(out, err) == IF Truthy(err)
                                  THEN [score |-> Frac(0, 1), feedback |-> <<"Grading failed.">>]
                                  ELSE GradeOf[out]

\* lines 106-110
MainResult(out, err) == IF Truthy(err)
                        THEN [score |-> Frac(0, 1), feedback |-> err]
                        ELSE GradeOf[out]

Grade == /\ pc = "returned"
         /\ score' = MainResult(output, error_message).score
         /\ feedback' = MainResult(output, error_message).feedback
         /\ pc' = "graded"
         /\ UNCHANGED <<nb, full_code, process, output, error_message, printed, spawns, has_code>>

\* lines 113-122
Report(sc, fb) == [name |-> "Spoiler Optimization Autograding",
                   score |-> sc, max_score |-> 10, output |-> fb]

\* main returning early, without a report, when a stage has failed
Emit_OnlyOnSuccess ==
    /\ pc = "graded"
    /\ printed' = IF Truthy(error_message) THEN printed
                  ELSE Append(printed, [tests |-> <<Report(score, feedback)>>])
    /\ pc' = "done"
    /\ UNCHANGED <<nb, full_code, process, output, error_message, score, feedback,
                   spawns, has_code>>

\* line 125
Emit == /\ pc = "graded"
        /\ printed' = Append(printed, [tests |-> <<Report(score, feedback)>>])
        /\ pc' = "done"
        /\ UNCHANGED <<nb, full_code, process, output, error_message, score, feedback,
                       spawns, has_code>>

Next == \/ ReadFails
        \/ ReadNotebook
        \/ ConcatCells
        \/ ProcessExits
        \/ ProcessTimesOut
        \/ LaunchFails
        \/ Grade
        \/ Emit

Spec == Init /\ [][Next]_vars

\* main runs to its end
FairSpec == Spec /\ WF_vars(Next)

(***************************************************************************)
(* Properties.                                                             *)
(***************************************************************************)
Done == pc = "done"
TheReport == printed[1].tests[1]
Zero == Frac(0, 1)
Succeeded == process.kind = "exit" /\ process.returncode = 0
FirstMatch == Search(process.stdout)
ValueTaken == Succeeded /\ FirstMatch.found /\ ParseFloat(FirstMatch.group1).ok
StudentCd == ParseFloat(FirstMatch.group1).value

C2_ReportFollowsStage ==
    Done =>
      LET r == TheReport
      IN  CASE process.kind = "none" /\ ~has_code ->
                 /\ r.score = Zero
                 /\ r.output \in {NoCodeMsg} \cup {ReadErrorMsg(e) : e \in ReadErrors}
                 /\ r.output = error_message
            [] process.kind = "timeout" -> r.score = Zero /\ r.output = TimeoutMsg
            [] process.kind = "launch_error" ->
                 r.score = Zero /\ r.output \in {UnexpectedMsg(e) : e \in LaunchErrors}
            [] process.kind = "exit" /\ process.returncode # 0 ->
                 r.score = Zero /\ r.output = ExecFailedMsg(process.stderr)
            [] Succeeded /\ ~FirstMatch.found -> r.score = Zero /\ r.output = NotFoundMsg
            [] Succeeded /\ FirstMatch.found /\ ~ParseFloat(FirstMatch.group1).ok ->
                 r.score = Zero /\ r.output = ParseErrorMsg(FirstMatch.group1)
            [] ValueTaken ->
                 /\ r.score = Score(StudentCd)
                 /\ r.output = GradedFeedback(StudentCd, RelError(StudentCd), Score(StudentCd))
            [] OTHER -> FALSE

\* a failed run (non-zero exit) and its report
C2_Witness == /\ Done
              /\ process.kind = "exit" /\ process.returncode # 0
              /\ process.stderr # <<>>
              /\ TheReport.output = ExecFailedMsg(process.stderr)

Graded == pc \in {"graded", "done"}
\* 9 * OPTIMAL_CD / 10, split in base 1000
NineTenthsOpt == 9 * (OPTIMAL_CD \div 10)
\* |h / 100 - 100 * a / (9 * OPTIMAL_CD)| <= 1 / 200, that is
\* |2 * h * NineTenthsOpt - 2000 * a| <= NineTenthsOpt, computed in two limbs
WithinHalfHundredth(h, a) ==
    LET hi == 2 * h * (NineTenthsOpt \div 1000) - 2 * a
        lo == 2 * h * (NineTenthsOpt % 1000)
    IN  Abs(hi) <= 5000 /\ Abs(1000 * hi + lo) <= NineTenthsOpt

\* C3: for a parsed value v with e = |v - R| / R the score is 10.0 when
\* e <= 0.10, 0.0 when e >= 1.0, and otherwise the multiple of 0.01 nearest
\* to 10 * (1 - (e - 0.10) / 0.90); 0.300353 and 0.330388 give 10.0,
\* 0.450530 gives 5.56 and 0.600706 gives 0.0.
C3_PiecewiseScore ==
    (Graded /\ ValueTaken) =>
      LET d == Abs(StudentCd - OPTIMAL_CD)
      IN  /\ 100 % score.den = 0
          /\ (10 * d <= OPTIMAL_CD => score = Ten)
          /\ (d >= OPTIMAL_CD => score = Zero)
          /\ (10 * d > OPTIMAL_CD /\ d < OPTIMAL_CD =>
                WithinHalfHundredth((score.num * 100) \div score.den, OPTIMAL_CD - d))
          /\ (FirstMatch.group1 = TokOptimal => score = Ten)
          /\ (FirstMatch.group1 = TokTenPct => score = Ten)
          /\ (FirstMatch.group1 = TokHalf => score = Frac(139, 25))
          /\ (FirstMatch.group1 = TokDouble => score = Zero)

\* the value 0.450530 has been graded 5.56
C3_Witness == /\ Graded /\ ValueTaken
              /\ FirstMatch.group1 = TokHalf
              /\ score = Frac(139, 25)

\* C4: every printed report has a score in [0, 10] that is a multiple of
\* 0.01, and max_score 10.
C4_ScoreRange ==
    Done => LET s == Norm(TheReport.score)
            IN  /\ 0 <= s.num /\ s.num <= 10 * s.den
                /\ 100 % s.den = 0
                /\ TheReport.max_score = 10

\* a report with a score strictly between 0 and 10
C4_Witness == /\ Done
              /\ TheReport.score.num > 0
              /\ TheReport.score.num < 10 * TheReport.score.den

Returned == pc \in {"returned", "graded", "done"}
Exited == process.kind = "exit"

\* C5: how the subprocess ends fixes what execute_notebook returns: exit
\* code zero gives the captured stdout unchanged and no error; a non-zero
\* exit code gives no output and an error carrying the captured stderr,
\* whatever the stdout held, and the report then scores 0; a timeout gives
\* the fixed 4-minute message; any other launch error gives its cause.
C5_ExecutorOutcome ==
    Returned =>
      /\ (Exited /\ process.returncode = 0 =>
            output = process.stdout /\ error_message = None)
      /\ (Exited /\ process.returncode # 0 =>
            /\ output = None
            /\ error_message # None
            /\ Len(error_message) = 1 + Len(process.stderr)
            /\ SubSeq(error_message, 2, Len(error_message)) = process.stderr
            /\ (Done => TheReport.score = Zero))
      /\ (process.kind = "timeout" =>
            /\ output = None /\ error_message = TimeoutMsg
            /\ (Done => TheReport.score = Zero /\ TheReport.output = TimeoutMsg))
      /\ (process.kind = "launch_error" =>
            /\ output = None
            /\ \E e \in LaunchErrors : error_message[Len(error_message)] = e)

\* a run that exited non-zero after printing a line worth 10.0, reported 0
C5_Witness == /\ Done
              /\ Exited /\ process.returncode # 0
              /\ GradeResult(process.stdout).score = Ten
              /\ TheReport.score = Zero

\* C6: only the first match counts.  Whatever follows a line-terminated
\* prefix of the output that holds a match leaves score and feedback as they
\* are for that prefix alone, also when the first token does not parse; with
\* no match at all the report scores 0 with the not-found text.
C6_FirstMatchWins ==
    (Done /\ Succeeded) =>
      LET text == process.stdout
      IN  /\ \A k \in 1..Len(text) :
                (text[k] = "\n" /\ Search(SubSeq(text, 1, k)).found) =>
                   LET alone == GradeResult(SubSeq(text, 1, k))
                   IN  TheReport.score = alone.score /\ TheReport.output = alone.feedback
          /\ ((\A i \in 1..Len(text) : ~MatchAt(text, i)) =>
                TheReport.score = Zero /\ TheReport.output = NotFoundMsg)

\* two matches, the first unparseable and the second parseable: the report
\* carries the first token
C6_Witness ==
    /\ Done /\ Succeeded
    /\ LET text == process.stdout
           starts == {i \in 1..Len(text) : MatchAt(text, i)}
       IN  /\ Cardinality(starts) = 2
           /\ ~ParseFloat(FirstMatch.group1).ok
           /\ ParseFloat(Search(SubSeq(text, FirstMatch.start + 1, Len(text))).group1).ok
           /\ TheReport.score = Zero
           /\ TheReport.output = ParseErrorMsg(FirstMatch.group1)

\* the middle band 0.10 < e < 1.0
InBand(v) == LET d == Abs(v - OPTIMAL_CD) IN 10 * d > OPTIMAL_CD /\ d < OPTIMAL_CD
ParsedTokens == {ParseFloat(t).value : t \in {u \in Tokens : ParseFloat(u).ok}}
LargerErrorInBand(v) == {w \in ParsedTokens :
                            InBand(w) /\ Abs(v - OPTIMAL_CD) < Abs(w - OPTIMAL_CD)}

\* C7 as stated: over the middle band the rounded score is strictly
\* decreasing in the relative error.
C7_StrictlyDecreasing ==
    (Graded /\ ValueTaken /\ InBand(StudentCd)) =>
      \A w \in LargerErrorInBand(StudentCd) : RLt(Score(w), score)

\* C7 amended: over the middle band the rounded score never increases with
\* the relative error.
C7_NonIncreasing ==
    (Graded /\ ValueTaken /\ InBand(StudentCd)) =>
      \A w \in LargerErrorInBand(StudentCd) : RLe(Score(w), score)

\* 0.450530 graded, with a larger error of equal score and one of lower score
C7_Witness ==
    /\ Graded /\ ValueTaken /\ InBand(StudentCd)
    /\ \E w \in LargerErrorInBand(StudentCd) : Score(w) = score
    /\ \E w \in LargerErrorInBand(StudentCd) : RLt(Score(w), score)

\* blanks that stay on the line
RECURSIVE SkipBlanks(_, _)
SkipBlanks(text, j) == IF j <= Len(text) /\ text[j] \in {" ", "\t"}
                       THEN SkipBlanks(text, j + 1) ELSE j
\* the label at i and a number after it on the same line
SameLineMatchAt(text, i) == /\ Fold(text[i]) = Fold(Label)
                            /\ LET j == SkipBlanks(text, i + 1)
                               IN  j <= Len(text) /\ text[j] \in NumChars

\* C8: a value is taken only from a line that holds both the label and the
\* number, and output with no such line gets the not-found text.
C8_SameLineOnly ==
    (Done /\ Succeeded) =>
      LET text == process.stdout
      IN  /\ (ValueTaken => SameLineMatchAt(text, FirstMatch.start))
          /\ ((\A i \in 1..Len(text) : ~SameLineMatchAt(text, i)) =>
                TheReport.output = NotFoundMsg)

\* C9: subprocess.run is called at most once in a run; once execute_notebook
\* has returned it has been called exactly once if some code cell holds more
\* than whitespace, and not at all if the read failed or no code was found.
C9_SpawnOnce ==
    /\ spawns <= 1
    /\ (~has_code => spawns = 0)
    /\ (Returned => spawns = IF has_code THEN 1 ELSE 0)

\* a finished run whose one subprocess exited non-zero
C9_Witness == Done /\ spawns = 1 /\ Exited /\ process.returncode # 0

\* C10: execute_notebook returns either an output and no error, or no output
\* and a non-empty error; the report of a failed run carries that error, the
\* report of a successful run what grade_result makes of the output, and the
\* text for a missing output is never reported.
C10_SuccessXorFailure ==
    Returned =>
      /\ \/ output # None /\ error_message = None
         \/ output = None /\ error_message # None /\ Len(error_message) > 0
      /\ (Done /\ output = None => TheReport.output = error_message)
      /\ (Done /\ output # None => TheReport.output = GradeResult(output).feedback)
      /\ (Done => TheReport.output # NoOutputMsg)

\* a failed run with empty stderr: the error text is still not empty
C10_Witness == /\ Done
               /\ Exited /\ process.returncode # 0 /\ process.stderr = <<>>
               /\ output = None
               /\ TheReport.output = error_message

====
